---------------------------- MODULE Spec2Model ----------------------------
(* Availability scheduler of vibe-server: source/scheduler.py (Scheduler),   *)
(* source/model.py (AvailabilityWindow, Appointment), source/functions.py    *)
(* (get_availability) and the two collaborators it reads, the schedule table *)
(* (source/database/database.py) and the calendar                            *)
(* (source/calendar_service/google_calendar.py); and the two assistants,     *)
(* Assistant.retrieve_response (source/assistant.py,                         *)
(* source/openai_service.py) and BedrockAssistant                            *)
(* (source/bedrock_assistant.py).                                            *)
(*                                                                           *)
(* Time is counted in whole minutes from an arbitrary origin.  An aware      *)
(* datetime is a record [inst, off]: the absolute instant and the offset of  *)
(* its tzinfo; Python compares and subtracts aware datetimes by instant.     *)
EXTENDS Integers, Sequences, FiniteSets, Bags, TLC

\* ------------------------------------------------------------------ bounds
\* Instants of the stored data range over 0..MaxTime.
MaxTime == 4
\* Schedule rows of the associate with a full schedule.
MaxSchedules == 3
\* Calendar events of the associate with a full calendar.
MaxAppointments == 2
\* Associates linked to the product and location.
MaxAssociates == 2
\* Product.duration_minutes ranges over 1..MaxDuration.
MaxDuration == 2
\* Calls of get_availability in one behaviour.
MaxCalls == 2
\* datetime.now() of a call ranges over 0..MaxNow.
MaxNow == 1

\* The 30 seconds (assistant.py) or 15 seconds (openai_service.py) of the
\* deadline of retrieve_response, in ticks of the clock.
TimeoutTicks == 3
\* The longest one pass of the polling loop takes, in ticks.
MaxElapsed == 2

\* Calls of add_message and retrieve_response on one BedrockAssistant.
MaxThreadCalls == 4

\* ------------------------------------------------------- program constants
\* AvailabilityWindow.associate_id before it is assigned (None).
NoAssociate == 0
\* timedelta(days=180), in days.
HorizonDays == 180
\* The product table: select_by_id finds a row for these ids and none for any
\* other.
Products == {"product"}

ProductIds == Products \cup {"no such product"}

\* ---------------------------------------------------------------- datetime
DT(i, o) == [inst |-> i, off |-> o]

\* pytz.UTC.localize(naive): the naive wall time read as UTC.
UTCLocalize(naive) == DT(naive, 0)

Timezones == {"UTC", "Etc/GMT-1", "Europe/London"}

\* tz.utcoffset at an instant, in minutes.  Europe/London stands for a zone
\* whose offset changes inside the modelled range (a DST transition at 2).
utcoffset(tz, inst) ==
    CASE tz = "UTC" -> 0
      [] tz = "Etc/GMT-1" -> 60
      [] OTHER -> IF inst >= 2 THEN 60 ELSE 0

\* The wall-clock reading of an aware datetime.
WallTime(dt) == dt.inst + dt.off

\* A conversion that keeps the wall-clock reading and swaps the tzinfo, as
\* datetime.replace(tzinfo=tz) does: the instant moves by the change of offset.
astimezone_keeping_wall_time(dt, tz) ==
    DT(WallTime(dt) - utcoffset(tz, WallTime(dt)), utcoffset(tz, WallTime(dt)))

\* datetime.astimezone(tz) on an aware datetime: same instant, new offset.
astimezone(dt, tz) == DT(dt.inst, utcoffset(tz, dt.inst))

Abs(x) == IF x < 0 THEN 0 - x ELSE x

\* ------------------------------------------------------- AvailabilityWindow
AvailabilityWindow(start_time, end_time) ==
    [start_time |-> start_time, end_time |-> end_time, associate_id |-> NoAssociate]

\* abs(timedelta.total_seconds()) // 60
duration_minutes(w) == (Abs(w.end_time.inst - w.start_time.inst) * 60) \div 60

localize(w, timezone) ==
    [w EXCEPT !.start_time = astimezone(w.start_time, timezone),
              !.end_time = astimezone(w.end_time, timezone)]

\* ------------------------------------------------------------ Scheduler
\* A split whose first fragment runs to the end of the booking instead of its
\* start.
split_window_to_booking_end(window, start_dt, end_dt) ==
    (IF start_dt.inst > window.start_time.inst
        THEN << AvailabilityWindow(window.start_time, end_dt) >>
        ELSE << >>)
    \o
    (IF end_dt.inst < window.end_time.inst
        THEN << AvailabilityWindow(end_dt, window.end_time) >>
        ELSE << >>)

\* A split that cuts both fragments whatever the position of the booking.
split_window_unguarded(window, start_dt, end_dt) ==
    << AvailabilityWindow(window.start_time, start_dt),
       AvailabilityWindow(end_dt, window.end_time) >>

\* A split that also cuts at a boundary the booking shares with the window.
split_window_inclusive(window, start_dt, end_dt) ==
    (IF start_dt.inst >= window.start_time.inst
        THEN << AvailabilityWindow(window.start_time, start_dt) >>
        ELSE << >>)
    \o
    (IF end_dt.inst <= window.end_time.inst
        THEN << AvailabilityWindow(end_dt, window.end_time) >>
        ELSE << >>)

\* A split that lists the part after the booking first.
split_window_after_part_first(window, start_dt, end_dt) ==
    (IF end_dt.inst < window.end_time.inst
        THEN << AvailabilityWindow(end_dt, window.end_time) >>
        ELSE << >>)
    \o
    (IF start_dt.inst > window.start_time.inst
        THEN << AvailabilityWindow(window.start_time, start_dt) >>
        ELSE << >>)

split_window(window, start_dt, end_dt) ==
    (IF start_dt.inst > window.start_time.inst
        THEN << AvailabilityWindow(window.start_time, start_dt) >>
        ELSE << >>)
    \o
    (IF end_dt.inst < window.end_time.inst
        THEN << AvailabilityWindow(end_dt, window.end_time) >>
        ELSE << >>)


\* A filter that drops a fragment as long as the product itself.
FilterLongerThanDuration(new_windows, product_duration_minutes) ==
    SelectSeq(new_windows, LAMBDA w : duration_minutes(w) > product_duration_minutes)

\* [w for w in new_windows if w.duration_minutes >= product_duration_minutes]
FilterByDuration(new_windows, product_duration_minutes) ==
    SelectSeq(new_windows, LAMBDA w : duration_minutes(w) >= product_duration_minutes)

\* A scan that never tests the last window of the working list.
RECURSIVE ScanWindowsButLast(_, _, _, _)
ScanWindowsButLast(windows, appointment, product_duration_minutes, i) ==
    IF i >= Len(windows)
    THEN [split_window_indices |-> << >>, extended_windows |-> << >>]
    ELSE LET window == windows[i]
             rest == ScanWindowsButLast(windows, appointment, product_duration_minutes, i + 1)
         IN  IF appointment.start.inst > window.end_time.inst
             THEN rest
             ELSE IF appointment.end.inst < window.start_time.inst
             THEN rest
             ELSE [split_window_indices |-> << i - 1 >> \o rest.split_window_indices,
                   extended_windows |->
                       FilterByDuration(
                           split_window(window, appointment.start, appointment.end),
                           product_duration_minutes)
                       \o rest.extended_windows]

\* The scan of one appointment over the working list (the inner for loop):
\* the 0-based indices of the windows taken as overlapping, and the fragments
\* that survive the duration filter, both in list order.
RECURSIVE ScanWindows(_, _, _, _)
ScanWindows(windows, appointment, product_duration_minutes, i) ==
    IF i > Len(windows)
    THEN [split_window_indices |-> << >>, extended_windows |-> << >>]
    ELSE LET window == windows[i]
             rest == ScanWindows(windows, appointment, product_duration_minutes, i + 1)
         IN  IF appointment.start.inst > window.end_time.inst
             THEN rest
             ELSE IF appointment.end.inst < window.start_time.inst
             THEN rest
             ELSE [split_window_indices |-> << i - 1 >> \o rest.split_window_indices,
                   extended_windows |->
                       FilterByDuration(
                           split_window(window, appointment.start, appointment.end),
                           product_duration_minutes)
                       \o rest.extended_windows]

\* list.pop(i), i 0-based and non-negative: IndexError past the end.
ListPop(list, i) ==
    IF i >= Len(list)
    THEN [raised |-> TRUE, list |-> list]
    ELSE [raised |-> FALSE,
          list |-> SubSeq(list, 1, i) \o SubSeq(list, i + 2, Len(list))]

\* for i in split_window_indices: windows.pop(i)
RECURSIVE PopSplitWindows(_, _)
PopSplitWindows(windows, split_window_indices) ==
    IF split_window_indices = << >>
    THEN [raised |-> FALSE, list |-> windows]
    ELSE LET popped == ListPop(windows, Head(split_window_indices))
         IN  IF popped.raised
             THEN popped
             ELSE PopSplitWindows(popped.list, Tail(split_window_indices))

\* One pass of the loop over the appointments: scan, pop, extend.
AdjustWindows(windows, appointment, product_duration_minutes) ==
    LET scan == ScanWindows(windows, appointment, product_duration_minutes, 1)
        popped == PopSplitWindows(windows, scan.split_window_indices)
    IN  IF popped.raised
        THEN popped
        ELSE [raised |-> FALSE, list |-> popped.list \o scan.extended_windows]

\* A tagging that reaches only the first window of the list.
AssignAssociateToFirst(windows, associate_id) ==
    [i \in 1..Len(windows) |->
        IF i = 1 THEN [windows[i] EXCEPT !.associate_id = associate_id] ELSE windows[i]]

\* for window in windows: window.associate_id = associate_id
AssignAssociate(windows, associate_id) ==
    [i \in 1..Len(windows) |-> [windows[i] EXCEPT !.associate_id = associate_id]]

\* ------------------------------------------------------------ Appointment
\* A calendar event holds its start and end as instants of the UTC calendar.
from_event(event) ==
    [start |-> DT(event.start, 0), end |-> DT(event.end, 0)]

\* sorted(appointments, key=lambda x: x.start): stable.
RECURSIVE InsertByStart(_, _)
InsertByStart(sorted, x) ==
    IF sorted = << >>
    THEN << x >>
    ELSE IF sorted[Len(sorted)].start.inst <= x.start.inst
    THEN Append(sorted, x)
    ELSE Append(InsertByStart(SubSeq(sorted, 1, Len(sorted) - 1), x), sorted[Len(sorted)])

RECURSIVE SortedByStart(_)
SortedByStart(appointments) ==
    IF appointments = << >>
    THEN << >>
    ELSE InsertByStart(SortedByStart(SubSeq(appointments, 1, Len(appointments) - 1)),
                       appointments[Len(appointments)])

\* ---------------------------------------------------------- collaborators
\* events().list(timeMin, timeMax, orderBy="startTime"): the events of the
\* calendar that end after timeMin and start before timeMax.
read_appointments(calendar, time_min, time_max) ==
    SelectSeq(calendar, LAMBDA e : e.end > time_min.inst /\ e.start < time_max.inst)

\* select(Schedule).where(associate_id, location_id, start_datetime >= now)
get_going_forward_schedules_by_location_associate(table, associate_id, now) ==
    SelectSeq(table, LAMBDA row : row.associate_id = associate_id
                                  /\ row.start_datetime >= now.inst)

\* Scheduler.get_appointments_by_associate_id, the calendar read succeeding.
get_appointments_by_associate_id(calendar, now) ==
    LET start == now
        end == DT(now.inst + HorizonDays * 24 * 60, now.off)
        events == read_appointments(calendar, start, end)
    IN  SortedByStart([i \in 1..Len(events) |-> from_event(events[i])])

\* Schedule.start_dtz / end_dtz of each row, as the initial working list.
InitialWindows(schedules) ==
    [i \in 1..Len(schedules) |->
        AvailabilityWindow(UTCLocalize(schedules[i].start_datetime),
                           UTCLocalize(schedules[i].end_datetime))]

\* ------------------------------------------------------------------ state
VARIABLES
    db,              \* associates of the product and location, schedule table,
                     \* calendars, Product.duration_minutes
    calls_left,      \* calls of get_availability still to come
    pc,              \* where the current call stands
    args,            \* product_id and datetime.now() of the current call
    associate_idx,   \* get_availabilities: position in associates
    fetched,         \* what get_associate_available_windows read
    windows,         \* its working list
    appointment_idx, \* its position in appointments
    results,         \* get_availabilities: results
    per_associate,   \* what each associate of this call contributed
    availabilities,  \* the list Scheduler.get_availabilities returned
    history,         \* the finished calls, in order
    implementation,  \* Assistant.retrieve_response: the module of the class called
    run_pc,          \* where the call of retrieve_response stands
    run,             \* run.status
    clock,           \* datetime.now(), in ticks
    timeout_timestamp,
    statuses,        \* every status the run of this call has had
    response,        \* what retrieve_response returned or raised
    thread_messages, \* BedrockAssistant: thread.messages
    chat_memory,     \* BedrockAssistant: memory.chat_memory.messages
    calls,           \* the calls made on the BedrockAssistant, in order
    split_call       \* a call of Scheduler.split_window on its own: arguments,
                     \* result, and the result after the duration filter

scheduler_vars == << db, calls_left, pc, args, associate_idx, fetched, windows,
                     appointment_idx, results, per_associate, availabilities, history >>

assistant_vars == << implementation, run_pc, run, clock, timeout_timestamp, statuses,
                     response >>

bedrock_vars == << thread_messages, chat_memory, calls >>

split_vars == << split_call >>

vars == << scheduler_vars, assistant_vars, bedrock_vars, split_vars >>

\* ------------------------------------------------------------- input data
Interval(s, e) == [start |-> s, end |-> e]

\* Well-formed intervals that start at or after t.
IntervalsFrom(t) ==
    { Interval(x[1], x[2]) : x \in { y \in (t..MaxTime) \X (t..MaxTime) : y[1] < y[2] } }

\* Schedule blocks in chronological order, none overlapping the next.
RECURSIVE ScheduleLists(_, _)
ScheduleLists(t, n) ==
    { << >> } \cup
    (IF n = 0 THEN {}
     ELSE UNION { { << iv >> \o rest : rest \in ScheduleLists(iv.end, n - 1) }
                  : iv \in IntervalsFrom(t) })

\* Calendar events as the calendar lists them: ordered by start time; events
\* may overlap each other.
RECURSIVE EventLists(_, _)
EventLists(t, n) ==
    { << >> } \cup
    (IF n = 0 THEN {}
     ELSE UNION { { << iv >> \o rest : rest \in EventLists(iv.start, n - 1) }
                  : iv \in { x \in IntervalsFrom(0) : x.start >= t } })

FullData ==
    { [schedule |-> sc, calendar |-> ca] :
        sc \in ScheduleLists(0, MaxSchedules), ca \in EventLists(0, MaxAppointments) }

\* A working day that lies ahead of every now: free, fully booked, or with one
\* appointment in its middle.
WorkingDay == Interval(MaxNow, MaxTime)

PlainData ==
    { [schedule |-> << WorkingDay >>, calendar |-> ca] :
        ca \in { << >>, << WorkingDay >>, << Interval(MaxNow + 1, MaxTime - 1) >> } }

ScheduleRows(associate_id, schedule) ==
    [i \in 1..Len(schedule) |->
        [associate_id |-> associate_id,
         start_datetime |-> schedule[i].start,
         end_datetime |-> schedule[i].end]]

RECURSIVE ScheduleTable(_, _)
ScheduleTable(data, n) ==
    IF n = 0 THEN << >>
    ELSE ScheduleTable(data, n - 1) \o ScheduleRows(n, data[n].schedule)

Database(data, n, duration) ==
    [associates |-> [i \in 1..n |-> i],
     schedule |-> ScheduleTable(data, n),
     calendar |-> [a \in 1..n |-> data[a].calendar],
     duration_minutes |-> duration]

\* Databases in which associate 1 has any schedule and calendar within the
\* bounds and every further associate has a plain working day.
Databases ==
    { Database(<< >>, 0, d) : d \in 1..MaxDuration }
    \cup
    UNION { { Database([a \in 1..n |-> IF a = 1 THEN full ELSE plain[a]], n, d)
              : full \in FullData, plain \in [2..n -> PlainData], d \in 1..MaxDuration }
            : n \in 1..MaxAssociates }

\* Databases for behaviours with several calls: every associate has a plain
\* working day, or there is one associate, with one schedule row and one
\* calendar event fewer than the bounds allow.
RepeatDatabases ==
    UNION { { Database(plain, n, d) : plain \in [1..n -> PlainData], d \in 1..MaxDuration }
            : n \in 0..MaxAssociates }
    \cup
    { Database(<< [schedule |-> sc, calendar |-> ca] >>, 1, d) :
        sc \in ScheduleLists(0, MaxSchedules - 1),
        ca \in EventLists(0, MaxAppointments - 1),
        d \in 1..MaxDuration }

\* A day that begins after the 180 days for which appointments are read, seen
\* from any now.
FarDay ==
    Interval(HorizonDays * 24 * 60 + MaxNow + 1, HorizonDays * 24 * 60 + MaxNow + 2)

\* A working day ahead, a day beyond the 180 days, or both, free or booked.
HorizonData ==
    { [schedule |-> sc, calendar |-> ca] :
        sc \in { << WorkingDay >>, << FarDay >>, << WorkingDay, FarDay >> },
        ca \in { << >>, << WorkingDay >>, << Interval(MaxNow + 1, MaxTime - 1) >>,
                 << FarDay >>, << WorkingDay, FarDay >> } }

\* Databases whose schedule table and calendars reach beyond the 180 days.
HorizonDatabases ==
    UNION { { Database(data, n, d) : data \in [1..n -> HorizonData], d \in 1..MaxDuration }
            : n \in 1..MaxAssociates }

\* ------------------------------------------------------------ call results
NoList == << >>

Returned(list) == [kind |-> "returned", status_code |-> 200, detail |-> "", list |-> list]

HTTPException(status_code, detail) ==
    [kind |-> "HTTPException", status_code |-> status_code, detail |-> detail, list |-> NoList]

Raised(error) == [kind |-> "raised", status_code |-> 0, detail |-> error, list |-> NoList]

NotCalled == [kind |-> "not called", status_code |-> 0, detail |-> "", list |-> NoList]

NoArgs == [product_id |-> "", now |-> DT(0, 0)]

NoFetch == [associate_id |-> NoAssociate, schedules |-> << >>, appointments |-> << >>]

\* What one associate contributed to a call: what was read for it, the windows
\* get_associate_available_windows returned, and the read that failed, if any.
Contribution(read, availability, fault) ==
    [associate_id |-> read.associate_id, schedules |-> read.schedules,
     appointments |-> read.appointments, windows |-> availability, fault |-> fault]

Idle ==
    /\ pc' = "idle"
    /\ args' = NoArgs
    /\ associate_idx' = 0
    /\ fetched' = NoFetch
    /\ windows' = << >>
    /\ appointment_idx' = 0
    /\ results' = << >>
    /\ per_associate' = << >>
    /\ availabilities' = NotCalled

\* A call ends: what Scheduler.get_availabilities did and what
\* get_availability gave its caller are recorded.
Finish(call, contributions, scheduler, timezone, outcome) ==
    /\ history' = Append(history,
            [product_id |-> call.product_id, now |-> call.now, timezone |-> timezone,
             per_associate |-> contributions, scheduler |-> scheduler,
             outcome |-> outcome])
    /\ Idle

NoResponse == [kind |-> "none", detail |-> ""]

\* No call of Assistant.retrieve_response has been made.
InitAssistantIdle ==
    /\ implementation = ""
    /\ run_pc = "idle"
    /\ run = ""
    /\ clock = 0
    /\ timeout_timestamp = 0
    /\ statuses = {}
    /\ response = NoResponse

\* Thread.__init__: self.messages = []; ConversationBufferMemory starts empty.
InitThread ==
    /\ thread_messages = << >>
    /\ chat_memory = << >>
    /\ calls = << >>

\* split_window has not been called on its own.
NoSplit ==
    [stage |-> "idle", window |-> AvailabilityWindow(DT(0, 0), DT(0, 0)),
     start_dt |-> DT(0, 0), end_dt |-> DT(0, 0), product_duration_minutes |-> 0,
     new_windows |-> << >>, kept |-> << >>]

InitCommon ==
    /\ InitAssistantIdle
    /\ InitThread
    /\ split_call = NoSplit
    /\ pc = "idle"
    /\ args = NoArgs
    /\ associate_idx = 0
    /\ fetched = NoFetch
    /\ windows = << >>
    /\ appointment_idx = 0
    /\ results = << >>
    /\ per_associate = << >>
    /\ availabilities = NotCalled
    /\ history = << >>

\* One call of get_availability on any database within the bounds.
Init ==
    /\ db \in Databases
    /\ calls_left = 1
    /\ InitCommon

\* Up to MaxCalls calls on one unchanged database.
InitRepeat ==
    /\ db \in RepeatDatabases
    /\ calls_left = MaxCalls
    /\ InitCommon

\* One call on a database that holds rows and events beyond the 180 days.
InitHorizon ==
    /\ db \in HorizonDatabases
    /\ calls_left = 1
    /\ InitCommon

\* ---------------------------------------------------------------- actions
\* A results list that starts from what the previous call returned.
CachedResults ==
    IF history = << >> THEN << >> ELSE history[Len(history)].scheduler.list

\* results: list[AvailabilityWindow] = []
EmptyResults == << >>

\* An extend that skips a window whose start and end are already in the list.
ExtendDistinct(list, availability) ==
    list \o SelectSeq(availability,
                      LAMBDA w : \A i \in DOMAIN list :
                                     \/ list[i].start_time # w.start_time
                                     \/ list[i].end_time # w.end_time)

\* results.extend(availability)
Extend(list, availability) == list \o availability

\* functions.get_availability up to the call of Scheduler.get_availabilities,
\* and the first lines of the latter: the product is looked up (404 when it
\* is not found), the calendar of its business is set up, the associates of
\* product and location are read and results starts empty.
GetAvailability(product_id, now) ==
    /\ pc = "idle"
    /\ calls_left > 0
    /\ calls_left' = calls_left - 1
    /\ UNCHANGED db
    /\ IF product_id \notin Products
       THEN Finish([product_id |-> product_id, now |-> DT(now, 0)], << >>, NotCalled,
                   "UTC", HTTPException(404, "Unable to find product by id"))
       ELSE /\ pc' = "associates"
            /\ args' = [product_id |-> product_id, now |-> DT(now, 0)]
            /\ associate_idx' = 1
            /\ results' = EmptyResults
            /\ UNCHANGED << fetched, windows, appointment_idx, per_associate,
                            availabilities, history >>
    /\ UNCHANGED << assistant_vars, bedrock_vars, split_vars >>

\* get_associate_available_windows for the next associate, up to the loop
\* over the appointments: the calendar and the schedule table are read and the
\* working list is built from the schedule rows.
FetchAssociate ==
    /\ pc = "associates"
    /\ associate_idx <= Len(db.associates)
    /\ LET associate_id == db.associates[associate_idx]
           appointments == get_appointments_by_associate_id(db.calendar[associate_id], args.now)
           schedules == get_going_forward_schedules_by_location_associate(
                            db.schedule, associate_id, args.now)
       IN  /\ fetched' = [associate_id |-> associate_id, schedules |-> schedules,
                          appointments |-> appointments]
           /\ windows' = InitialWindows(schedules)
    /\ appointment_idx' = 1
    /\ pc' = "appointments"
    /\ UNCHANGED << db, calls_left, args, associate_idx, results, per_associate,
                    availabilities, history >>
    /\ UNCHANGED << assistant_vars, bedrock_vars, split_vars >>

\* What a read of get_associate_available_windows can raise: the associate row
\* is not found (the assert), the calendar read fails, the schedule query fails.
Faults == {"AssertionError", "calendar error", "database error"}

\* A handler that skips the associate whose read failed and goes on.
FetchFailsSkipped(fault) ==
    /\ pc = "associates"
    /\ associate_idx <= Len(db.associates)
    /\ per_associate' = Append(per_associate,
            Contribution([NoFetch EXCEPT !.associate_id = db.associates[associate_idx]],
                         << >>, fault))
    /\ associate_idx' = associate_idx + 1
    /\ UNCHANGED << db, calls_left, pc, args, fetched, windows, appointment_idx, results,
                    availabilities, history >>
    /\ UNCHANGED << assistant_vars, bedrock_vars, split_vars >>

\* A read fails for the next associate.  Neither Scheduler nor get_availability
\* has a handler: the exception leaves both.
FetchFails(fault) ==
    /\ pc = "associates"
    /\ associate_idx <= Len(db.associates)
    /\ Finish(args,
              Append(per_associate,
                     Contribution([NoFetch EXCEPT !.associate_id = db.associates[associate_idx]],
                                  << >>, fault)),
              Raised(fault), "UTC", Raised(fault))
    /\ UNCHANGED << db, calls_left >>
    /\ UNCHANGED << assistant_vars, bedrock_vars, split_vars >>

\* One pass of the loop over the appointments.
ProcessAppointment ==
    /\ pc = "appointments"
    /\ appointment_idx <= Len(fetched.appointments)
    /\ LET adjusted == AdjustWindows(windows, fetched.appointments[appointment_idx],
                                     db.duration_minutes)
       IN  IF adjusted.raised
           THEN /\ Finish(args, per_associate, Raised("IndexError"), "UTC",
                          Raised("IndexError"))
                /\ UNCHANGED << db, calls_left >>
           ELSE /\ windows' = adjusted.list
                /\ appointment_idx' = appointment_idx + 1
                /\ UNCHANGED << db, calls_left, pc, args, associate_idx, fetched, results,
                                per_associate, availabilities, history >>
    /\ UNCHANGED << assistant_vars, bedrock_vars, split_vars >>

\* The loop over the appointments is over: the windows are tagged with the
\* associate and returned, and get_availabilities extends results with them.
FinishAssociate ==
    /\ pc = "appointments"
    /\ appointment_idx > Len(fetched.appointments)
    /\ LET availability == AssignAssociate(windows, fetched.associate_id)
       IN  /\ results' = Extend(results, availability)
           /\ per_associate' = Append(per_associate, Contribution(fetched, availability, ""))
    /\ associate_idx' = associate_idx + 1
    /\ pc' = "associates"
    /\ fetched' = NoFetch
    /\ windows' = << >>
    /\ appointment_idx' = 0
    /\ UNCHANGED << db, calls_left, args, availabilities, history >>
    /\ UNCHANGED << assistant_vars, bedrock_vars, split_vars >>

\* Scheduler.get_availabilities returns results.
ReturnAvailabilities ==
    /\ pc = "associates"
    /\ associate_idx > Len(db.associates)
    /\ availabilities' = Returned(results)
    /\ pc' = "returned"
    /\ UNCHANGED << db, calls_left, args, associate_idx, fetched, windows,
                    appointment_idx, results, per_associate, history >>
    /\ UNCHANGED << assistant_vars, bedrock_vars, split_vars >>

\* A loop that stops one window short of the end of the list.
LocalizeAllButLast(list, timezone) ==
    [i \in 1..Len(list) |-> IF i < Len(list) THEN localize(list[i], timezone) ELSE list[i]]

\* for availability in availabilities: availability.localize(timezone)
LocalizeAll(list, timezone) == [i \in 1..Len(list) |-> localize(list[i], timezone)]

\* The rest of functions.get_availability: 404 when the list is empty, else
\* every window is localized to the caller's timezone and the list returned.
Respond(timezone) ==
    /\ pc = "returned"
    /\ IF availabilities.list = << >>
       THEN Finish(args, per_associate, availabilities, timezone,
                   HTTPException(404, "Unable to find availabilities"))
       ELSE Finish(args, per_associate, availabilities, timezone,
                   Returned(LocalizeAll(availabilities.list, timezone)))
    /\ UNCHANGED << db, calls_left >>
    /\ UNCHANGED << assistant_vars, bedrock_vars, split_vars >>

Next ==
    \/ \E product_id \in ProductIds, now \in 0..MaxNow :
           GetAvailability(product_id, now)
    \/ FetchAssociate
    \/ \E fault \in Faults : FetchFails(fault)
    \/ ProcessAppointment
    \/ FinishAssociate
    \/ ReturnAvailabilities
    \/ \E timezone \in Timezones : Respond(timezone)

Spec == Init /\ [][Next]_vars

SpecRepeat == InitRepeat /\ [][Next]_vars

SpecHorizon == InitHorizon /\ [][Next]_vars

\* Scheduler.get_associate_available_windows as a function of what it reads:
\* the loop over the appointments from the k-th on.
RECURSIVE AdjustFrom(_, _, _, _)
AdjustFrom(list, appointments, product_duration_minutes, k) ==
    IF k > Len(appointments)
    THEN [raised |-> FALSE, list |-> list]
    ELSE LET adjusted == AdjustWindows(list, appointments[k], product_duration_minutes)
         IN  IF adjusted.raised
             THEN adjusted
             ELSE AdjustFrom(adjusted.list, appointments, product_duration_minutes, k + 1)

get_associate_available_windows(database, associate_id, now) ==
    LET appointments == get_appointments_by_associate_id(database.calendar[associate_id], now)
        schedules == get_going_forward_schedules_by_location_associate(
                         database.schedule, associate_id, now)
        adjusted == AdjustFrom(InitialWindows(schedules), appointments,
                               database.duration_minutes, 1)
    IN  IF adjusted.raised
        THEN adjusted
        ELSE [raised |-> FALSE, list |-> AssignAssociate(adjusted.list, associate_id)]

\* ---------------------------------------------- Assistant.retrieve_response
\* source/assistant.py and source/openai_service.py each define an Assistant
\* whose retrieve_response polls a run of the OpenAI thread.
Implementations == {"assistant", "openai_service"}

RunStatuses ==
    {"queued", "in_progress", "requires_action", "cancelling", "cancelled", "failed",
     "completed", "incomplete", "expired"}

\* What handling a run that requires action can raise: get_availability's
\* HTTPException, the Exception for an unexpected tool, an error of the API
\* when the outputs are submitted.
ToolErrors == {"HTTPException", "Exception", "APIError"}

\* messages.data[0].content[0]: a text block or another kind of block.
ContentBlocks == {"TextContentBlock", "ImageFileContentBlock"}

\* A test of the run that also takes an expired run as done.
IsCompletedOrExpired(status) == status \in {"completed", "expired"}

\* if run.status == "completed"
IsCompleted(status) == status = "completed"

ReturnedText(text) == [kind |-> "returned", detail |-> text]

RaisedError(error) == [kind |-> "raised", detail |-> error]

\* retrieve_response returns or raises.
EndCall(result) ==
    /\ response' = result
    /\ run_pc' = "done"
    /\ UNCHANGED << implementation, run, clock, timeout_timestamp, statuses >>

\* The loop body took `elapsed` ticks (time.sleep and the calls made).
NextPoll(status, elapsed) ==
    /\ run' = status
    /\ statuses' = statuses \cup {status}
    /\ clock' = clock + elapsed
    /\ UNCHANGED << implementation, run_pc, timeout_timestamp, response >>

\* retrieve_response is called: create_and_poll gives the run, and the
\* deadline is set.
RetrieveResponse(module, status) ==
    /\ run_pc = "idle"
    /\ implementation' = module
    /\ run' = status
    /\ statuses' = {status}
    /\ timeout_timestamp' = clock + TimeoutTicks
    /\ run_pc' = "poll"
    /\ UNCHANGED << clock, response, scheduler_vars, bedrock_vars, split_vars >>

\* The while condition fails: raise TimeoutError.
TimedOut ==
    /\ run_pc = "poll"
    /\ ~(clock < timeout_timestamp)
    /\ EndCall(RaisedError("TimeoutError"))
    /\ UNCHANGED << scheduler_vars, bedrock_vars, split_vars >>

\* The run is completed: the latest message of the thread is read and the
\* value of its first content block returned.  assistant.py asserts a text
\* block; openai_service.py reads .text of whatever block is there.
Completed(block) ==
    /\ run_pc = "poll"
    /\ clock < timeout_timestamp
    /\ IsCompleted(run)
    /\ EndCall(IF block = "TextContentBlock"
               THEN ReturnedText("message text")
               ELSE IF implementation = "assistant"
                    THEN RaisedError("AssertionError")
                    ELSE RaisedError("AttributeError"))
    /\ UNCHANGED << scheduler_vars, bedrock_vars, split_vars >>

\* assistant.py: the run requires action.  The tools are run and their
\* outputs submitted and polled, which gives the run its next status; an
\* exception of a tool or of the submission leaves retrieve_response.
RequiresAction(raises, error, status, elapsed) ==
    /\ run_pc = "poll"
    /\ clock < timeout_timestamp
    /\ implementation = "assistant"
    /\ ~IsCompleted(run)
    /\ run = "requires_action"
    /\ IF raises
       THEN EndCall(RaisedError(error))
       ELSE NextPoll(status, elapsed)
    /\ UNCHANGED << scheduler_vars, bedrock_vars, split_vars >>

\* assistant.py: the run failed.
RunFailed ==
    /\ run_pc = "poll"
    /\ clock < timeout_timestamp
    /\ implementation = "assistant"
    /\ ~IsCompleted(run)
    /\ run = "failed"
    /\ EndCall(RaisedError("Exception"))
    /\ UNCHANGED << scheduler_vars, bedrock_vars, split_vars >>

\* Any other status (in openai_service.py: any status but completed): sleep
\* and test the same run again.
Sleep(elapsed) ==
    /\ run_pc = "poll"
    /\ clock < timeout_timestamp
    /\ ~IsCompleted(run)
    /\ implementation = "assistant" => run \notin {"requires_action", "failed"}
    /\ NextPoll(run, elapsed)
    /\ UNCHANGED << scheduler_vars, bedrock_vars, split_vars >>

NextAssistant ==
    \/ \E module \in Implementations, status \in RunStatuses :
           RetrieveResponse(module, status)
    \/ TimedOut
    \/ \E block \in ContentBlocks : Completed(block)
    \/ \E raises \in BOOLEAN, error \in ToolErrors, status \in RunStatuses,
          elapsed \in 1..MaxElapsed :
           RequiresAction(raises, error, status, elapsed)
    \/ RunFailed
    \/ \E elapsed \in 1..MaxElapsed : Sleep(elapsed)

\* One call of retrieve_response; no call of get_availability.
InitAssistant ==
    /\ db = Database(<< >>, 0, 1)
    /\ calls_left = 0
    /\ InitCommon

SpecAssistant == InitAssistant /\ [][NextAssistant]_vars

\* ------------------------------------------------------- BedrockAssistant
Roles == {"user", "assistant"}

\* What callers write and what the agent answers.
Contents == {"Hello!", "Tell me about yourself"}

Outputs == {"First response", "Second response"}

AssistantMessage(role, content) == [role |-> role, content |-> content]

\* An add that puts the newest message first.
add_message_newest_first(messages, message) == << message >> \o messages

\* Thread.add_message: self.messages.append(message)
add_message(messages, message) == Append(messages, message)

\* The calls made so far, each with what it was given and what it gave.
Called(op, message, result) == [op |-> op, message |-> message, result |-> result]

\* BedrockAssistant.add_message: the message goes to the thread and, as a
\* user or an AI message, to the chat memory.
AddMessage(role, content) ==
    /\ Len(calls) < MaxThreadCalls
    /\ thread_messages' = add_message(thread_messages, AssistantMessage(role, content))
    /\ chat_memory' = Append(chat_memory,
                             [type |-> IF role = "user" THEN "human" ELSE "ai",
                              content |-> content])
    /\ calls' = Append(calls, Called("add_message", AssistantMessage(role, content),
                                     NoResponse))
    /\ UNCHANGED << scheduler_vars, assistant_vars, split_vars >>

\* What the agent does with the input: it answers, it raises, or the deadline
\* is over before it is invoked.
AgentOutcomes == {"output", "raises", "timeout"}

\* BedrockAssistant.retrieve_response.  Without a user message in the thread
\* a fixed text is returned.  Otherwise the agent is invoked with the last
\* user message; its output is added to the thread as an assistant message
\* and returned; an exception, TimeoutError included, is logged and raised
\* again.  chat_memory is written here by the executor alone, not by this
\* code.
BedrockRetrieveResponse(outcome, output) ==
    /\ Len(calls) < MaxThreadCalls
    /\ LET user_messages == SelectSeq(thread_messages, LAMBDA m : m.role = "user")
           result ==
               IF user_messages = << >>
               THEN ReturnedText("No user messages to respond to.")
               ELSE IF outcome = "timeout" THEN RaisedError("TimeoutError")
               ELSE IF outcome = "raises" THEN RaisedError("Exception")
               ELSE ReturnedText(output)
       IN  /\ thread_messages' =
                  IF user_messages # << >> /\ outcome = "output"
                  THEN add_message(thread_messages, AssistantMessage("assistant", output))
                  ELSE thread_messages
           /\ calls' = Append(calls,
                  Called("retrieve_response",
                         IF user_messages = << >>
                         THEN AssistantMessage("", "")
                         ELSE user_messages[Len(user_messages)],
                         result))
    /\ UNCHANGED << chat_memory, scheduler_vars, assistant_vars, split_vars >>

NextBedrock ==
    \/ \E role \in Roles, content \in Contents : AddMessage(role, content)
    \/ \E outcome \in AgentOutcomes, output \in Outputs :
           BedrockRetrieveResponse(outcome, output)

SpecBedrock == InitAssistant /\ [][NextBedrock]_vars

\* ---------------------------------------- Scheduler.split_window on its own
\* Every well-formed window and booking within the bounds.
SplitWindows ==
    { AvailabilityWindow(UTCLocalize(iv.start), UTCLocalize(iv.end)) : iv \in IntervalsFrom(0) }

SplitBookings == { from_event(iv) : iv \in IntervalsFrom(0) }

\* new_windows = self.split_window(window, appointment.start, appointment.end)
SplitWindow(window, booking) ==
    /\ split_call.stage = "idle"
    /\ split_call' = [split_call EXCEPT
           !.stage = "split",
           !.window = window,
           !.start_dt = booking.start,
           !.end_dt = booking.end,
           !.new_windows = split_window(window, booking.start, booking.end)]
    /\ UNCHANGED << scheduler_vars, assistant_vars, bedrock_vars >>

\* new_windows = [w for w in new_windows if w.duration_minutes >= product_duration_minutes]
FilterNewWindows(product_duration_minutes) ==
    /\ split_call.stage = "split"
    /\ split_call' = [split_call EXCEPT
           !.stage = "filtered",
           !.product_duration_minutes = product_duration_minutes,
           !.kept = FilterByDuration(split_call.new_windows, product_duration_minutes)]
    /\ UNCHANGED << scheduler_vars, assistant_vars, bedrock_vars >>

NextSplit ==
    \/ \E window \in SplitWindows, booking \in SplitBookings : SplitWindow(window, booking)
    \/ \E product_duration_minutes \in 1..MaxDuration :
           FilterNewWindows(product_duration_minutes)

SpecSplit == InitAssistant /\ [][NextSplit]_vars

\* ----------------------------------------------------------------- claims
Range(seq) == { seq[i] : i \in DOMAIN seq }

\* Half-open overlap of a window and a busy interval.
Overlaps(w, b) == b.start.inst < w.end_time.inst /\ b.end.inst > w.start_time.inst

\* The window lies inside the schedule row.
Within(w, row) ==
    /\ w.start_time.inst >= row.start_datetime
    /\ w.end_time.inst <= row.end_datetime

\* C1: no window returned by get_associate_available_windows overlaps an
\* appointment of that associate that was read as input: for every pair,
\* b.end <= w.start or b.start >= w.end.
C1_NoReturnedWindowOverlapsAppointment ==
    \A c \in Range(per_associate) :
        \A w \in Range(c.windows), b \in Range(c.appointments) : ~Overlaps(w, b)

\* C2: every window returned by Scheduler.get_availabilities lasts at least
\* product_duration_minutes, untouched schedule windows included.
C2_ReturnedWindowsMeetDuration ==
    \A h \in Range(history) :
        h.scheduler.kind = "returned" =>
            \A w \in Range(h.scheduler.list) : duration_minutes(w) >= db.duration_minutes

\* C3: every window returned for an associate lies inside one of the schedule
\* rows read for that associate.
C3_ReturnedWindowsWithinSchedule ==
    \A c \in Range(per_associate) :
        \A w \in Range(c.windows) : \E row \in Range(c.schedules) : Within(w, row)

\* C3 witness: an associate's result holds a fragment cut out of a schedule
\* row by an appointment, strictly shorter than the row it lies in.
C3_Witness ==
    \E c \in Range(per_associate) :
        /\ c.appointments # << >>
        /\ \E w \in Range(c.windows) : \E row \in Range(c.schedules) :
               /\ Within(w, row)
               /\ w.end_time.inst - w.start_time.inst < row.end_datetime - row.start_datetime

\* The schedule rows of an associate that a call at `now` reads.
RowsRead(associate_id, now) ==
    SelectSeq(db.schedule, LAMBDA row : row.associate_id = associate_id
                                        /\ row.start_datetime >= now.inst)

\* Every minute of the row lies inside some event of the calendar.
Consumed(row, calendar) ==
    \A t \in row.start_datetime..(row.end_datetime - 1) :
        \E e \in Range(calendar) : e.start <= t /\ t + 1 <= e.end

NoFault(h) == \A c \in Range(h.per_associate) : c.fault = ""

\* C4: Scheduler.get_availabilities returns an empty list and does not raise
\* when no associate has a qualifying window: no associates, an associate
\* without schedule rows, or every schedule row consumed by appointments.
C4_EmptyListWhenNothingQualifies ==
    \A h \in Range(history) :
        ( /\ h.product_id \in Products
          /\ NoFault(h)
          /\ \A a \in Range(db.associates) :
                 \A row \in Range(RowsRead(a, h.now)) : Consumed(row, db.calendar[a]) )
        => h.scheduler = Returned(<< >>)

\* The product of the call is not in the database.
NotFound(h) == h.product_id \notin Products

\* Product and associates were found and no window is free.
NothingFree(h) ==
    /\ h.product_id \in Products
    /\ db.associates # << >>
    /\ h.scheduler = Returned(<< >>)

\* C5: a call whose product cannot be resolved and a call for which everything
\* resolves but nothing is free never give the caller the same result or the
\* same error status.
C5_NotFoundDiffersFromNothingFree ==
    \A g \in Range(history), h \in Range(history) :
        (NotFound(g) /\ NothingFree(h)) =>
            /\ g.outcome # h.outcome
            /\ ~(g.outcome.kind = h.outcome.kind
                 /\ g.outcome.status_code = h.outcome.status_code)

\* C6: when a read fails for one associate, the failure reaches the caller and
\* no list is returned: neither by Scheduler.get_availabilities nor by
\* get_availability, whatever earlier associates contributed, and the failing
\* associate contributes no windows.
C6_FetchFailurePropagates ==
    \A h \in Range(history) :
        \A c \in Range(h.per_associate) :
            c.fault # "" =>
                /\ h.scheduler = Raised(c.fault)
                /\ h.outcome = Raised(c.fault)
                /\ c.windows = << >>

\* C6 witness: the read fails for the second associate after the first one
\* contributed windows, and the call raised.
C6_Witness ==
    \E h \in Range(history) :
        /\ Len(h.per_associate) = 2
        /\ h.per_associate[1].windows # << >>
        /\ h.per_associate[2].fault # ""
        /\ h.scheduler.kind = "raised"

\* The associate has one schedule row ahead and one event, which covers it.
FullyBooked(a, now) ==
    /\ Len(RowsRead(a, now)) = 1
    /\ Len(db.calendar[a]) = 1
    /\ Consumed(RowsRead(a, now)[1], db.calendar[a])

\* The associate has one schedule row ahead and no event.
FreeAllDay(a, now) ==
    /\ Len(RowsRead(a, now)) = 1
    /\ db.calendar[a] = << >>

RowWindow(row) ==
    [start_time |-> UTCLocalize(row.start_datetime),
     end_time |-> UTCLocalize(row.end_datetime),
     associate_id |-> row.associate_id]

ScenarioD(h, booked, free) ==
    /\ h.scheduler.kind = "returned"
    /\ Range(db.associates) = {booked, free}
    /\ booked # free
    /\ FullyBooked(booked, h.now)
    /\ FreeAllDay(free, h.now)

\* C7: every window Scheduler.get_availabilities returns carries the id of an
\* associate and lies inside a schedule row of that associate; with one fully
\* booked and one free associate the result is the free associate's window,
\* tagged with the free associate's id.
C7_WindowsTaggedWithTheirAssociate ==
    \A h \in Range(history) :
        h.scheduler.kind = "returned" =>
            /\ \A w \in Range(h.scheduler.list) :
                   /\ w.associate_id # NoAssociate
                   /\ \E row \in Range(RowsRead(w.associate_id, h.now)) : Within(w, row)
            /\ \A c \in Range(h.per_associate) :
                   \A w \in Range(c.windows) : w.associate_id = c.associate_id
            /\ \A booked \in Range(db.associates), free \in Range(db.associates) :
                   ScenarioD(h, booked, free) =>
                       h.scheduler.list = << RowWindow(RowsRead(free, h.now)[1]) >>

\* C7 witness: a call returned with one associate fully booked and one free.
C7_Witness ==
    \E h \in Range(history) :
        \E booked \in Range(db.associates), free \in Range(db.associates) :
            /\ ScenarioD(h, booked, free)
            /\ Len(h.scheduler.list) = 1

RECURSIVE Concatenation(_)
Concatenation(contributions) ==
    IF contributions = << >>
    THEN << >>
    ELSE Concatenation(SubSeq(contributions, 1, Len(contributions) - 1))
         \o contributions[Len(contributions)].windows

RECURSIVE TotalLength(_)
TotalLength(contributions) ==
    IF contributions = << >>
    THEN 0
    ELSE TotalLength(Tail(contributions)) + Len(Head(contributions).windows)

BagOf(seq) == [x \in Range(seq) |-> Cardinality({ i \in DOMAIN seq : seq[i] = x })]

\* C9: two calls with the same product and the same now, on the unchanged
\* database and without a failed read, get the same multiset of windows from
\* Scheduler.get_availabilities (or both raise the same error).
C9_RepeatedCallSameWindows ==
    \A i \in DOMAIN history, j \in DOMAIN history :
        ( /\ i < j
          /\ history[i].product_id = history[j].product_id
          /\ history[i].now = history[j].now
          /\ NoFault(history[i])
          /\ NoFault(history[j]) )
        => /\ history[i].scheduler.kind = history[j].scheduler.kind
           /\ history[i].scheduler.detail = history[j].scheduler.detail
           /\ BagOf(history[i].scheduler.list) = BagOf(history[j].scheduler.list)

\* C9 witness: the second of two such calls returned a list that holds a
\* fragment left by an appointment.
C9_Witness ==
    /\ Len(history) = 2
    /\ history[1].product_id = history[2].product_id
    /\ history[1].now = history[2].now
    /\ history[2].scheduler.kind = "returned"
    /\ \E c \in Range(history[2].per_associate) :
           /\ c.appointments # << >>
           /\ c.windows # << >>

AsAppointment(iv) == [start |-> DT(iv.start, 0), end |-> DT(iv.end, 0)]

\* C10: localize changes only the offset: each window get_availability
\* returns denotes the instants Scheduler.get_availabilities returned, in the
\* offset of the requested timezone; duration, order of start and end and the
\* overlap with every interval are unchanged.
C10_LocalizeKeepsInstants ==
    \A h \in Range(history) :
        h.outcome.kind = "returned" =>
            /\ Len(h.outcome.list) = Len(h.scheduler.list)
            /\ \A i \in DOMAIN h.outcome.list :
                   LET before == h.scheduler.list[i]
                       after == h.outcome.list[i]
                   IN  /\ after.start_time.inst = before.start_time.inst
                       /\ after.end_time.inst = before.end_time.inst
                       /\ after.start_time.off = utcoffset(h.timezone, before.start_time.inst)
                       /\ after.end_time.off = utcoffset(h.timezone, before.end_time.inst)
                       /\ after.associate_id = before.associate_id
                       /\ duration_minutes(after) = duration_minutes(before)
                       /\ (after.start_time.inst < after.end_time.inst)
                              = (before.start_time.inst < before.end_time.inst)
                       /\ \A iv \in IntervalsFrom(0) :
                              Overlaps(after, AsAppointment(iv))
                                  = Overlaps(before, AsAppointment(iv))

\* C10 witness: a window was localized to a zone whose offset differs between
\* its start and its end.
C10_Witness ==
    \E h \in Range(history) :
        /\ h.outcome.kind = "returned"
        /\ \E w \in Range(h.outcome.list) : w.start_time.off # w.end_time.off

\* The datetimes of the window are those the scheduler built: UTC.
Unlocalized(w) == w.start_time.off = 0 /\ w.end_time.off = 0

\* The datetimes of the window carry the offset of the timezone.
LocalizedTo(w, timezone) ==
    /\ w.start_time.off = utcoffset(timezone, w.start_time.inst)
    /\ w.end_time.off = utcoffset(timezone, w.end_time.inst)

\* C11: get_availability localizes every window of its result to the requested
\* timezone and does so only after Scheduler.get_availabilities has returned:
\* every list on which windows are compared, split or filtered (the working
\* list, results, the list the scheduler returned) holds unlocalized windows
\* only, and the list given to the caller holds the scheduler's windows, each
\* one localized.
C11_LocalizedAfterAllArithmetic ==
    /\ \A w \in Range(windows) \cup Range(results) \cup Range(availabilities.list) :
           Unlocalized(w)
    /\ pc \in {"associates", "appointments"} => availabilities = NotCalled
    /\ \A h \in Range(history) :
           /\ \A w \in Range(h.scheduler.list) : Unlocalized(w)
           /\ \A c \in Range(h.per_associate) : \A w \in Range(c.windows) : Unlocalized(w)
           /\ h.outcome.kind = "returned" =>
                  /\ h.scheduler.kind = "returned"
                  /\ Len(h.outcome.list) = Len(h.scheduler.list)
                  /\ \A w \in Range(h.outcome.list) : LocalizedTo(w, h.timezone)

\* C11 witness: a call answered in a zone away from UTC with several windows,
\* one of them a fragment left by an appointment.
C11_Witness ==
    \E h \in Range(history) :
        /\ h.outcome.kind = "returned"
        /\ h.timezone = "Etc/GMT-1"
        /\ Len(h.outcome.list) >= 2
        /\ \E c \in Range(h.per_associate) : c.appointments # << >> /\ c.windows # << >>

\* C12: every window Scheduler.get_availabilities returns has end_time after
\* start_time, the schedule rows and the appointments being well-formed; no
\* zero-length or inverted window is returned.
C12_ReturnedWindowsEndAfterStart ==
    \A h \in Range(history) :
        h.scheduler.kind = "returned" =>
            \A w \in Range(h.scheduler.list) : w.end_time.inst > w.start_time.inst

\* C12 witness: a returned window is the fragment of a schedule row that
\* follows an appointment which began at or before the row's start.
C12_Witness ==
    \E h \in Range(history) :
        /\ h.scheduler.kind = "returned"
        /\ \E c \in Range(h.per_associate) :
               \E w \in Range(c.windows), b \in Range(c.appointments),
                  row \in Range(c.schedules) :
                   /\ b.start.inst <= row.start_datetime
                   /\ w.start_time = b.end
                   /\ w.end_time.inst = row.end_datetime

\* C13: the schedule rows read for an associate are exactly the stored rows of
\* that associate whose end is after now: a row that has started and not yet
\* ended is read, and a row that has ended is not.
C13_RowsEndingAfterNowAreRead ==
    \A h \in Range(history) :
        \A c \in Range(h.per_associate) :
            c.fault = "" =>
                Range(c.schedules) =
                    { row \in Range(db.schedule) :
                          /\ row.associate_id = c.associate_id
                          /\ row.end_datetime > h.now.inst }

\* C14: no window returned for an associate ends after the range for which
\* that associate's appointments were read, now + 180 days.
C14_ReturnedWindowsWithinHorizon ==
    \A h \in Range(history) :
        \A c \in Range(h.per_associate) :
            \A w \in Range(c.windows) :
                w.end_time.inst <= h.now.inst + HorizonDays * 24 * 60

\* C15: what a call returns for an associate depends on that associate's
\* schedule rows and appointments alone: whenever the associate's own data
\* gives a list of windows, the call returns exactly that multiset for it,
\* whatever the rows and appointments of the other associates and wherever the
\* associate stands in the order of processing.
C15_AssociateWindowsIndependent ==
    \A h \in Range(history) :
        (h.product_id \in Products /\ NoFault(h)) =>
            \A a \in Range(db.associates) :
                LET alone == get_associate_available_windows(db, a, h.now)
                IN  ~alone.raised =>
                        /\ h.scheduler.kind = "returned"
                        /\ BagOf(SelectSeq(h.scheduler.list, LAMBDA w : w.associate_id = a))
                               = BagOf(alone.list)

\* C16: Scheduler.get_availabilities returns one entry per associate of the
\* product and location, the i-th entry standing for the i-th associate; an
\* associate without windows still has its entry.
C16_OneEntryPerAssociate ==
    \A h \in Range(history) :
        h.scheduler.kind = "returned" =>
            /\ Len(h.scheduler.list) = Len(db.associates)
            /\ \A i \in DOMAIN h.scheduler.list :
                   h.scheduler.list[i].associate_id = db.associates[i]

\* The split of the reduction: a window the busy interval does not overlap
\* (half-open) is kept as it is; otherwise the fragments before and after the
\* busy interval that last at least min_duration.
ReductionSplit(w, busy, min_duration) ==
    IF ~Overlaps(w, busy)
    THEN << w >>
    ELSE FilterByDuration(
             (IF busy.start.inst > w.start_time.inst
                 THEN << AvailabilityWindow(w.start_time, busy.start) >> ELSE << >>)
             \o
             (IF busy.end.inst < w.end_time.inst
                 THEN << AvailabilityWindow(busy.end, w.end_time) >> ELSE << >>),
             min_duration)

RECURSIVE ReductionPass(_, _, _)
ReductionPass(list, busy, min_duration) ==
    IF list = << >>
    THEN << >>
    ELSE ReductionSplit(Head(list), busy, min_duration)
         \o ReductionPass(Tail(list), busy, min_duration)

RECURSIVE Reduction(_, _, _)
Reduction(list, appointments, min_duration) ==
    IF appointments = << >>
    THEN list
    ELSE Reduction(ReductionPass(list, Head(appointments), min_duration),
                   Tail(appointments), min_duration)

StartEnd(list) == [i \in DOMAIN list |-> << list[i].start_time.inst, list[i].end_time.inst >>]

\* C19: the multiset of (start, end) windows get_associate_available_windows
\* returns equals the pure reduction of the schedule windows by the
\* appointments: for each appointment in turn the working list is replaced by
\* the concatenation of the splits of its windows.
C19_WindowsEqualPureReduction ==
    \A h \in Range(history) :
        \A c \in Range(h.per_associate) :
            c.fault = "" =>
                BagOf(StartEnd(c.windows))
                    = BagOf(StartEnd(Reduction(InitialWindows(c.schedules), c.appointments,
                                               db.duration_minutes)))

\* C20: a pass of the loop over the appointments leaves in the working list,
\* with its start and end, every window the appointment does not overlap
\* under half-open semantics (the appointment ends at or before the window's
\* start, or starts at or after its end), whatever the window's duration and
\* the minimum duration.
C20_UntouchedWindowStays ==
    [][ (pc = "appointments" /\ appointment_idx <= Len(fetched.appointments)) =>
            \A w \in Range(windows) :
                ~Overlaps(w, fetched.appointments[appointment_idx]) =>
                    \E v \in Range(windows') :
                        v.start_time = w.start_time /\ v.end_time = w.end_time ]_vars

\* The run of the finished call was never completed and never failed.
NeverCompletedNorFailed ==
    /\ run_pc = "done"
    /\ "completed" \notin statuses
    /\ "failed" \notin statuses

\* C17 as stated: retrieve_response returns text only from a completed run; a
\* call whose run never is completed and does not fail returns no message and
\* ends raising TimeoutError, the deadline having passed; a failed run makes it
\* raise.
C17_ReturnsOnlyCompletedElseTimeoutError ==
    /\ run_pc # "done" => response = NoResponse
    /\ response.kind = "returned" => run = "completed"
    /\ NeverCompletedNorFailed =>
           /\ response = RaisedError("TimeoutError")
           /\ clock >= timeout_timestamp
    /\ (run_pc = "done" /\ run = "failed") => response.kind = "raised"

\* C17 amended: as above, but a call whose run never is completed and does not
\* fail ends raising either TimeoutError, the deadline having passed, or, in
\* assistant.py, the exception of a tool call or of the submission of the tool
\* outputs made for a run that requires action.
C17_ReturnsOnlyCompletedElseRaises ==
    /\ run_pc # "done" => response = NoResponse
    /\ response.kind = "returned" => run = "completed"
    /\ NeverCompletedNorFailed =>
           \/ /\ response = RaisedError("TimeoutError")
              /\ clock >= timeout_timestamp
           \/ /\ implementation = "assistant"
              /\ run = "requires_action"
              /\ response.kind = "raised"
              /\ response.detail \in ToolErrors
    /\ (run_pc = "done" /\ run = "failed") => response.kind = "raised"

\* C17 witness: a run that required action, had its tool outputs submitted
\* and then stayed in progress until the deadline: TimeoutError.
C17_Witness ==
    /\ NeverCompletedNorFailed
    /\ {"requires_action", "in_progress"} \subseteq statuses
    /\ response = RaisedError("TimeoutError")

\* The thread after the calls, every retrieve_response that returned having
\* appended the text it returned as an assistant message.
RECURSIVE TranscriptAsClaimed(_)
TranscriptAsClaimed(log) ==
    IF log = << >>
    THEN << >>
    ELSE LET before == TranscriptAsClaimed(SubSeq(log, 1, Len(log) - 1))
             last == log[Len(log)]
         IN  IF last.op = "add_message"
             THEN Append(before, last.message)
             ELSE IF last.result.kind = "returned"
             THEN Append(before, AssistantMessage("assistant", last.result.detail))
             ELSE before

\* The same, a retrieve_response made while the thread holds no user message
\* appending nothing.
RECURSIVE Transcript(_)
Transcript(log) ==
    IF log = << >>
    THEN << >>
    ELSE LET before == Transcript(SubSeq(log, 1, Len(log) - 1))
             last == log[Len(log)]
         IN  IF last.op = "add_message"
             THEN Append(before, last.message)
             ELSE IF /\ last.result.kind = "returned"
                     /\ \E m \in Range(before) : m.role = "user"
             THEN Append(before, AssistantMessage("assistant", last.result.detail))
             ELSE before

\* The calls are rounds of (add a user message, retrieve_response returning).
Rounds(log) ==
    \A i \in DOMAIN log :
        IF i % 2 = 1
        THEN log[i].op = "add_message" /\ log[i].message.role = "user"
        ELSE log[i].op = "retrieve_response" /\ log[i].result.kind = "returned"

Alternating(messages) ==
    \A i \in DOMAIN messages :
        messages[i].role = IF i % 2 = 1 THEN "user" ELSE "assistant"

\* C18 as stated: thread.messages holds the messages added, in the order of
\* the calls and unchanged, every retrieve_response that returned having
\* appended one assistant message with the returned text; n rounds of (add
\* user message, retrieve_response) leave 2n messages alternating user,
\* assistant.
C18_ThreadHoldsAddedAndEveryReturnedText ==
    /\ thread_messages = TranscriptAsClaimed(calls)
    /\ (Rounds(calls) /\ Len(calls) % 2 = 0) =>
           Len(thread_messages) = Len(calls) /\ Alternating(thread_messages)

\* C18 amended: as above, but a retrieve_response made while the thread holds
\* no user message returns its fixed text and appends nothing.
C18_ThreadHoldsAddedAndAgentAnswers ==
    /\ thread_messages = Transcript(calls)
    /\ \A i \in DOMAIN calls :
           ( /\ calls[i].op = "retrieve_response"
             /\ calls[i].result.kind = "returned"
             /\ Len(Transcript(SubSeq(calls, 1, i)))
                    = Len(Transcript(SubSeq(calls, 1, i - 1))) )
           => calls[i].result.detail = "No user messages to respond to."
    /\ (Rounds(calls) /\ Len(calls) % 2 = 0) =>
           Len(thread_messages) = Len(calls) /\ Alternating(thread_messages)

\* C18 witness: two rounds have left four messages, the second answer
\* differing from the first.
C18_Witness ==
    /\ Len(calls) = 4
    /\ Rounds(calls)
    /\ Len(thread_messages) = 4
    /\ thread_messages[2].content # thread_messages[4].content

\* The booking of the call of split_window, as a busy interval.
SplitBooking == [start |-> split_call.start_dt, end |-> split_call.end_dt]

BeforePart == AvailabilityWindow(split_call.window.start_time, split_call.start_dt)

AfterPart == AvailabilityWindow(split_call.end_dt, split_call.window.end_time)

\* C21: for a booking that overlaps the window split_window returns at most
\* two windows: the part before the booking if and only if the booking starts
\* after the window's start, then the part after it if and only if the
\* booking ends before the window's end.  A booking strictly inside gives the
\* before-part followed by the after-part, a booking sharing one boundary
\* with the window one part, a booking covering the window none.
C21_SplitReturnsBeforeThenAfter ==
    (split_call.stage # "idle" /\ Overlaps(split_call.window, SplitBooking)) =>
        LET w == split_call.window
            b == SplitBooking
            parts == split_call.new_windows
            inside_start == b.start.inst > w.start_time.inst
            inside_end == b.end.inst < w.end_time.inst
        IN  /\ Len(parts) <= 2
            /\ (inside_start /\ inside_end) => parts = << BeforePart, AfterPart >>
            /\ (inside_start /\ ~inside_end) => parts = << BeforePart >>
            /\ (~inside_start /\ inside_end) => parts = << AfterPart >>
            /\ (~inside_start /\ ~inside_end) => parts = << >>
            /\ BeforePart \in Range(parts) <=> inside_start
            /\ AfterPart \in Range(parts) <=> inside_end

\* C21 witness: a booking strictly inside the window gave two parts.
C21_Witness ==
    /\ split_call.stage = "split"
    /\ split_call.start_dt.inst > split_call.window.start_time.inst
    /\ split_call.end_dt.inst < split_call.window.end_time.inst
    /\ Len(split_call.new_windows) = 2

\* C23: a fragment of a split is discarded if and only if its duration in
\* minutes is strictly less than the product duration; the fragments kept
\* stay in their order.
C23_FragmentDroppedIffShorter ==
    split_call.stage = "filtered" =>
        /\ \A f \in Range(split_call.new_windows) :
               f \notin Range(split_call.kept)
                   <=> (f.end_time.inst - f.start_time.inst
                            < split_call.product_duration_minutes)
        /\ Range(split_call.kept) \subseteq Range(split_call.new_windows)
        /\ Len(split_call.kept) = Cardinality(Range(split_call.kept))
        /\ Len(split_call.kept) = 2 => split_call.kept = split_call.new_windows

\* C23 witness: of two fragments the one that lasts exactly the product
\* duration was kept and the one a minute shorter dropped.
C23_Witness ==
    /\ split_call.stage = "filtered"
    /\ Len(split_call.new_windows) = 2
    /\ Len(split_call.kept) = 1
    /\ duration_minutes(split_call.kept[1]) = split_call.product_duration_minutes
    /\ \E f \in Range(split_call.new_windows) :
           duration_minutes(f) = split_call.product_duration_minutes - 1

\* C30: every window split_window returns lies within the window it was
\* given and has its end after its start, for every well-formed booking, a
\* booking entirely before or entirely after the window included.
C30_SplitPartsWithinWindow ==
    split_call.stage # "idle" =>
        \A f \in Range(split_call.new_windows) :
            /\ f.start_time.inst >= split_call.window.start_time.inst
            /\ f.end_time.inst <= split_call.window.end_time.inst
            /\ f.end_time.inst > f.start_time.inst

\* A pass of the loop over the appointments is about to run.
AppointmentPass == pc = "appointments" /\ appointment_idx <= Len(fetched.appointments)

\* The window is found to overlap the appointment by the scan: the appointment
\* neither starts after the window's end nor ends before its start.
FoundOverlapping(w, appointment) ==
    /\ appointment.start.inst <= w.end_time.inst
    /\ appointment.end.inst >= w.start_time.inst

\* The fragments of the windows found to overlap that last at least the
\* minimum duration, in list order.
RECURSIVE SurvivingFragments(_, _, _)
SurvivingFragments(list, appointment, min_duration) ==
    IF list = << >>
    THEN << >>
    ELSE (IF FoundOverlapping(Head(list), appointment)
             THEN SelectSeq(split_window(Head(list), appointment.start, appointment.end),
                            LAMBDA f : f.end_time.inst - f.start_time.inst >= min_duration)
             ELSE << >>)
         \o SurvivingFragments(Tail(list), appointment, min_duration)

\* The appointment covers the window entirely, equal boundaries included.
Covers(appointment, w) ==
    /\ appointment.start.inst <= w.start_time.inst
    /\ appointment.end.inst >= w.end_time.inst

\* C22: when an appointment covers a window of the working list entirely
\* (it starts at or before the window's start and ends at or after its end),
\* nothing of that window remains after the pass: the window is removed and
\* no fragment of it is added.
C22_CoveredWindowLeavesNothing ==
    [][ AppointmentPass =>
            \A w \in Range(windows) :
                Covers(fetched.appointments[appointment_idx], w) =>
                    \A v \in Range(windows') :
                        ~( /\ v.start_time.inst >= w.start_time.inst
                           /\ v.end_time.inst <= w.end_time.inst ) ]_vars

\* C24: every window that is in the working list when an appointment is
\* processed is tested against it, fragments created by earlier appointments
\* included: a pass that does not raise removes as many windows as the list
\* holds windows the appointment touches, and appends the surviving fragments
\* of every one of them.
C24_EveryWindowTested ==
    [][ (AppointmentPass /\ pc' = "appointments") =>
            LET appointment == fetched.appointments[appointment_idx]
                tested == { i \in DOMAIN windows : FoundOverlapping(windows[i], appointment) }
                fragments == SurvivingFragments(windows, appointment, db.duration_minutes)
            IN  /\ Len(windows') = Len(windows) - Cardinality(tested) + Len(fragments)
                /\ SubSeq(windows', Len(windows') - Len(fragments) + 1, Len(windows'))
                       = fragments ]_vars

\* C24 witness: both appointments were processed and the list holds a
\* fragment of a fragment: it starts where the first appointment ends and ends
\* where the second one starts.
C24_Witness ==
    /\ pc = "appointments"
    /\ appointment_idx = 3
    /\ fetched.appointments[1].end.inst < fetched.appointments[2].start.inst
    /\ \E w \in Range(windows) :
           /\ w.start_time = fetched.appointments[1].end
           /\ w.end_time = fetched.appointments[2].start
           /\ \E row \in Range(fetched.schedules) :
                  /\ row.start_datetime <= fetched.appointments[1].start.inst
                  /\ row.end_datetime >= fetched.appointments[2].end.inst

\* C29: a pass of the loop over the appointments removes exactly the windows
\* found to overlap the appointment and adds exactly their surviving
\* fragments: afterwards the list holds every window not found overlapping,
\* with its bounds, the fragments, and nothing else.
C29_PassRemovesExactlyOverlapping ==
    [][ AppointmentPass =>
            LET appointment == fetched.appointments[appointment_idx]
                remaining == SelectSeq(windows,
                                 LAMBDA w : ~FoundOverlapping(w, appointment))
                fragments == SurvivingFragments(windows, appointment, db.duration_minutes)
            IN  BagOf(StartEnd(windows')) = BagOf(StartEnd(remaining \o fragments)) ]_vars

\* Every order in which the events of a calendar can be listed.
Orderings(seq) ==
    { [i \in DOMAIN seq |-> seq[f[i]]] :
        f \in { g \in [DOMAIN seq -> DOMAIN seq] : \A i, j \in DOMAIN seq : g[i] = g[j] => i = j } }

\* C25: the multiset of (start, end) windows get_associate_available_windows
\* returns does not depend on the order of the busy intervals: with the
\* calendar events listed in any other order, events with the same start time
\* included, the call returns the same multiset.
C25_EventOrderDoesNotMatter ==
    (pc \in {"associates", "appointments"}) =>
        \A c \in Range(per_associate) :
            c.fault = "" =>
                \A calendar \in Orderings(db.calendar[c.associate_id]) :
                    LET other == get_associate_available_windows(
                                     [db EXCEPT !.calendar[c.associate_id] = calendar],
                                     c.associate_id, args.now)
                    IN  /\ ~other.raised
                        /\ BagOf(StartEnd(other.list)) = BagOf(StartEnd(c.windows))

\* C26: no entity is modified after its construction: the database is left
\* as it was, the windows get_associate_available_windows returns are the
\* windows of its working list with the associate_id they were created with,
\* and the windows get_availability returns have the start_time and end_time
\* Scheduler.get_availabilities returned them with.
C26_NoEntityModified ==
    [][ /\ db' = db
        /\ (pc = "appointments" /\ appointment_idx > Len(fetched.appointments)) =>
               results' = results \o windows
        /\ (pc = "returned" /\ availabilities.list # << >>) =>
               history'[Len(history')].outcome = Returned(availabilities.list) ]_vars

\* The windows of the list are in ascending order of start time.
Ascending(list) ==
    \A i, j \in DOMAIN list :
        i < j => list[i].start_time.inst < list[j].start_time.inst

\* C27 as stated: the list get_associate_available_windows returns is in
\* ascending order of start time, after any number of appointments.
C27_ReturnedWindowsAscending ==
    \A c \in Range(per_associate) : Ascending(c.windows)

\* C27: for one schedule window and one appointment the list
\* get_associate_available_windows returns is in ascending order of start
\* time: the part before the appointment comes before the part after it.
C27_BeforePartPrecedesAfterPart ==
    \A c \in Range(per_associate) :
        (Len(c.schedules) = 1 /\ Len(c.appointments) = 1) => Ascending(c.windows)

\* C27 witness: one schedule window was split in two by one appointment.
C27_Witness ==
    \E c \in Range(per_associate) :
        /\ Len(c.schedules) = 1
        /\ Len(c.appointments) = 1
        /\ Len(c.windows) = 2
        /\ c.windows[1].end_time = c.appointments[1].start
        /\ c.windows[2].start_time = c.appointments[1].end

\* C28: get_associate_available_windows returns without raising: the removal
\* of the split windows by index never indexes past the end of the list, also
\* when one appointment overlaps or touches two or more windows.
C28_RemovalNeverRaises ==
    /\ \A h \in Range(history) :
           /\ h.scheduler # Raised("IndexError")
           /\ h.outcome # Raised("IndexError")
    /\ AppointmentPass =>
           ~AdjustWindows(windows, fetched.appointments[appointment_idx],
                          db.duration_minutes).raised

=============================================================================
